---- MODULE Spec2Model ----
(***************************************************************************)
(* Capsule generation pipeline of opennote (convex/capsuleGeneration.ts    *)
(* and convex/capsules.ts).                                                *)
(*                                                                         *)
(* Every ctx.runQuery / ctx.runMutation / ctx.scheduler.runAfter issued by *)
(* an action handler is its own transaction, so each awaited call of a     *)
(* handler is one atomic step here and an invocation's position between    *)
(* two awaits is its pc.  A mutation (saveGeneratedModule, ...) is a       *)
(* single transaction and therefore a single step.  An awaited call inside *)
(* a try block may throw; control then moves to the handler's catch block. *)
(* The model follows the records of one capsule.                           *)
(***************************************************************************)
EXTENDS Integers, Naturals, Sequences, FiniteSets, TLC

\* ---------------------------------------------------------------- bounds
MaxJobs == 2        \* generation jobs created for the capsule
MaxModules == 2     \* modules of a generated outline
MaxLessons == 2     \* lessons of a generated module
MaxThrows == 1      \* awaited runMutation / runAfter calls that throw

\* ------------------------------------------------------ program constants
MaxRetries == 3     \* capsuleGeneration.ts:266  (retryCount < 3)
BackoffBaseMs == 1000 \* capsuleGeneration.ts:277

Callers == {"c1", "c2"}   \* concurrent invocations of the entry point

VARIABLES
  capsule,         \* the capsules record
  jobs,            \* table capsuleGenerationJobs, in insertion order
  capsuleModules,  \* table capsuleModules, in insertion order
  capsuleLessons,  \* table capsuleLessons, in insertion order
  scheduled,       \* invocations handed to ctx.scheduler, not yet started
  running,         \* started stage invocations, each with its pc
  calls,           \* invocations of generateCapsuleContent, by caller
  hist,            \* history kept for the properties, one entry per job
  throws,          \* number of awaited calls that have thrown so far
  lessonsPerModule, \* lessons the model writes per module: none or MaxLessons
  engine,          \* one run of validateAndCorrectJson
  modelOutput,     \* the text the model answers a module-content call with
  sim,             \* a generateSimulationIdeas call and the video's tables
  fetch,           \* a fetchTranscript call
  deleted          \* whether deleteCapsule has removed the capsule

vars == <<capsule, jobs, capsuleModules, capsuleLessons,
          scheduled, running, calls, hist, throws, lessonsPerModule, engine, modelOutput,
                sim, fetch, deleted>>

\* the variables of the generation pipeline
pipeline == <<capsule, jobs, capsuleModules, capsuleLessons,
              scheduled, running, calls, hist, throws, lessonsPerModule, modelOutput>>

\* ----------------------------------------------------------------- values
Undefined == "<undefined>"   \* an absent optional string
NoCount == -1                \* an absent optional number
Statuses == {"pending", "generating_outline", "generating_content",
             "completed", "failed"}

\* the message of the error object the outline prompt asks for (line 422,
\* shortened); Undefined is an error object that carries no message
UrlRejectMessage == "URLs and links cannot be used as course topics."
RejectMessages == {UrlRejectMessage, Undefined}
DefaultRejectMessage == "Content generation failed"
FinalizeFailedMessage == "Failed to finalize generation"
\* messages of exceptions raised inside a try block
AiErrorMessage == "No response from AI"      \* lines 1175, 1252
ServerErrorMessage == "Server Error"         \* a rejected runMutation/runAfter

ModuleFailedMessage(moduleIndex) ==
  "Failed to generate module " \o ToString(moduleIndex + 1)
    \o " after 3 attempts"

StageName(i) == "module_" \o ToString(i)

\* line 277: Math.pow(2, retryCount) * 1000
BackoffDelay(retryCount) == (2 ^ retryCount) * BackoffBaseMs

\* x || y of JavaScript for an optional string
OrElse(x, y) == IF x = Undefined \/ x = "" THEN y ELSE x

\* ------------------------------------------------------------ the records
NewJob ==
  [currentStage |-> "outline", outlineGenerated |-> FALSE,
   modulesGenerated |-> 0, totalModules |-> 0, currentModuleIndex |-> 0,
   retryCount |-> 0, lastError |-> Undefined, completedAt |-> FALSE]

\* streak: failed generateModuleContent invocations since the last successful
\* one; delays: the retry delays scheduled during the streak; gaveUp: the
\* retry limit was reached; rejected: the outline generator returned the
\* error object; saved: <<moduleId, moduleIndex, lessons>> of each module saved
NewHist == [streak |-> 0, delays |-> <<>>, gaveUp |-> FALSE,
            rejected |-> FALSE, saved |-> <<>>]

Invocation(fn, jobId, moduleIndex, outline, delay) ==
  [fn |-> fn, jobId |-> jobId, moduleIndex |-> moduleIndex,
   outline |-> outline, delay |-> delay]

Proc(inv, pc, k, msg, retryCount) ==
  [fn |-> inv.fn, jobId |-> inv.jobId, moduleIndex |-> inv.moduleIndex,
   outline |-> inv.outline, pc |-> pc, k |-> k, msg |-> msg,
   retryCount |-> retryCount]

At(p, pc) == [p EXCEPT !.pc = pc]

IdleCall == [pc |-> "idle", jobId |-> 0, result |-> "none"]

\* ---------------------------------------------- the model's module content
\* The text the model returns for a module: a JSON document, bare, inside a
\* markdown fence or inside prose, or text that holds no JSON at all.  Of the
\* document the model keeps the practice question of a lesson's content.
ItemIds == {"item1", "item2"}
TargetIds == {"target1", "target2"}
BlankIds == {"b1", "b2"}

SeqsUpTo(S, n) == UNION {[1..m -> S] : m \in 0..n}

\* lesson content without a practice question
PlainContent == [type |-> "text"]

\* a dragDrop question: its items, and per target the list acceptsItems
DragDropQuestions ==
  {[type |-> "dragDrop", items |-> I, acceptsItems |-> t] :
     I \in SUBSET ItemIds \ {{}},
     t \in UNION {[T -> SUBSET ItemIds] : T \in SUBSET TargetIds \ {{}}}}

\* a fillBlanks question: the {{blankId}} placeholders of its text in order,
\* and the ids of the entries of its blanks array
FillBlanksQuestions ==
  {[type |-> "fillBlanks", placeholders |-> ph, blanks |-> bl] :
     ph \in SeqsUpTo(BlankIds, 2), bl \in SeqsUpTo(BlankIds, 2)}

Contents == {PlainContent} \cup DragDropQuestions \cup FillBlanksQuestions
Wraps == {"bare", "fenced", "prose", "garbage"}
ModelOutputs == [wrap : Wraps, content : Contents]
PlainOutput == [wrap |-> "bare", content |-> PlainContent]

\* lines 1261-1289: JSON.parse of the text, else of the fenced block, else of
\* the text from the first { to the last }; otherwise the function throws
Parses(text) == text.wrap # "garbage"
extractJsonFromResponse(text) == text.content

\* lines 1195-1256: the parsed response is returned as it is
generateModuleContentAI(text) == extractJsonFromResponse(text)

\* validateAndCorrectJson is not running
IdleEngine == [pc |-> "idle"]

\* no generateSimulationIdeas call yet: the video has no status row and no
\* simulations rows
IdleSim == [pc |-> "idle", status |-> Undefined, error |-> Undefined,
            simulations |-> {}, result |-> <<>>, i |-> 0, returned |-> <<>>,
            runs |-> 0, created |-> 0, threw |-> FALSE]

\* no fetchTranscript call yet
IdleFetch == [pc |-> "idle", attempt |-> 0, retryDelay |-> 0, requests |-> 0,
              outcome |-> "none", status |-> 0, code |-> Undefined,
              headers |-> <<>>, waits |-> <<>>]

InitTables ==
  /\ capsule = [status |-> "pending", errorMessage |-> Undefined,
                moduleCount |-> 0, completedAt |-> FALSE]
  /\ jobs = <<>>
  /\ capsuleModules = <<>>
  /\ capsuleLessons = <<>>
  /\ scheduled = {}
  /\ running = {}
  /\ calls = [c \in Callers |-> IdleCall]
  /\ hist = <<>>
  /\ throws = 0

Init ==
  /\ InitTables
  /\ lessonsPerModule \in {0, MaxLessons}
  /\ engine = IdleEngine
  /\ modelOutput = PlainOutput
  /\ sim = IdleSim
  /\ fetch = IdleFetch
  /\ deleted = FALSE

\* ------------------------------------------------------------- mutations
\* a status write that stores the errorMessage argument even when absent
updateCapsuleStatusClearing(c, status, errorMessage, moduleCount) ==
  [c EXCEPT !.status = status,
            !.errorMessage = errorMessage,
            !.moduleCount = IF moduleCount # NoCount THEN moduleCount ELSE @,
            !.completedAt = IF status = "completed" THEN TRUE ELSE @]

\* api.capsules.updateCapsuleStatus
updateCapsuleStatus(c, status, errorMessage, moduleCount) ==
  [c EXCEPT !.status = status,
            !.errorMessage = IF errorMessage # Undefined THEN errorMessage ELSE @,
            !.moduleCount = IF moduleCount # NoCount THEN moduleCount ELSE @,
            !.completedAt = IF status = "completed" THEN TRUE ELSE @]

\* a new job that takes over the progress of the previous job
createGenerationJobResuming(js) ==
  Append(js, IF js = <<>> THEN NewJob
             ELSE [NewJob EXCEPT
                     !.currentStage = js[Len(js)].currentStage,
                     !.modulesGenerated = js[Len(js)].modulesGenerated,
                     !.currentModuleIndex = js[Len(js)].currentModuleIndex])

\* internal.capsules.createGenerationJob: the new table; the id is its index
createGenerationJob(js) == Append(js, NewJob)

\* a save that makes the module visible with its last lesson still missing
saveGeneratedModulePartial(mods, lessons, order, k, content) ==
  LET moduleId == Len(mods) + 1
      shown == IF k > 0 THEN k - 1 ELSE 0
      newLessons == [i \in 1..shown |->
                      [moduleId |-> moduleId, order |-> i - 1, content |-> content]]
  IN <<Append(mods, [order |-> order]), lessons \o newLessons>>

\* internal.capsules.saveGeneratedModule: the module and all its lessons are
\* inserted by one transaction; the module id is its index in the table.
\* The result is the pair of new tables.
saveGeneratedModule(mods, lessons, order, k, content) ==
  LET moduleId == Len(mods) + 1
      newLessons == [i \in 1..k |->
                      [moduleId |-> moduleId, order |-> i - 1, content |-> content]]
  IN <<Append(mods, [order |-> order]), lessons \o newLessons>>

\* ------------------------------------------------------------ the queries
\* api.capsules.getCapsuleWithContent: the modules sorted by order, each with
\* its lessons; a query reads one snapshot of the tables.
LessonsOf(lessons, moduleId) ==
  SelectSeq(lessons, LAMBDA l : l.moduleId = moduleId)

getCapsuleWithContent ==
  [m \in 1..Len(capsuleModules) |->
     [moduleId |-> m, order |-> capsuleModules[m].order,
      lessons |-> LessonsOf(capsuleLessons, m)]]

\* capsule-card.tsx lines 72-79: the value of the progress bar while the
\* capsule is generating content; Math.round of a non-negative quotient
Round(num, den) == (2 * num + den) \div (2 * den)
Progress(job) ==
  Round(job.modulesGenerated * 100,
        IF job.totalModules > 1 THEN job.totalModules ELSE 1)

\* --------------------------------------------- generateCapsuleContent
\* a guard that only looks at the two generating states
StartableUnlessGenerating(status) ==
  status # "generating_outline" /\ status # "generating_content"

\* line 28: the states a generation may start from
Startable(status) == status = "pending" \/ status = "failed"

JobsInFlight == Cardinality({c \in Callers : calls[c].pc = "create"})

\* The callers are interchangeable: c2 stands for a call made while the call
\* of c1 is in flight.
InFlight(c) == calls[c].pc \in {"create", "status", "schedule"}
CanCall(c) == c = "c1" \/ InFlight("c1")

\* lines 20-30: read the capsule, return {success:false} when not startable
StartRead(c) ==
  /\ calls[c].pc \in {"idle", "done"}
  /\ CanCall(c)
  /\ IF Startable(capsule.status)
     THEN /\ Len(jobs) + JobsInFlight < MaxJobs
          /\ calls' = [calls EXCEPT ![c] = [IdleCall EXCEPT !.pc = "create"]]
     ELSE calls' = [calls EXCEPT ![c] =
                      [pc |-> "done", jobId |-> 0, result |-> "rejected"]]
  /\ UNCHANGED <<capsule, jobs, capsuleModules, capsuleLessons,
                 scheduled, running, hist, throws, lessonsPerModule, engine, modelOutput,
                sim, fetch, deleted>>

\* a call that adopts the job another call has just created
StartCreateJobShared(c) ==
  /\ calls[c].pc = "create"
  /\ IF \E j \in 1..Len(jobs) : jobs[j].currentStage = "outline"
     THEN /\ jobs' = jobs
          /\ hist' = hist
          /\ calls' = [calls EXCEPT ![c].pc = "status", ![c].jobId = Len(jobs)]
     ELSE /\ jobs' = createGenerationJob(jobs)
          /\ hist' = Append(hist, NewHist)
          /\ calls' = [calls EXCEPT ![c].pc = "status", ![c].jobId = Len(jobs) + 1]
  /\ UNCHANGED <<capsule, capsuleModules, capsuleLessons, scheduled, running,
                 throws, lessonsPerModule, engine, modelOutput,
                sim, fetch, deleted>>

\* lines 36-39
StartCreateJob(c) ==
  /\ calls[c].pc = "create"
  /\ jobs' = createGenerationJob(jobs)
  /\ hist' = Append(hist, NewHist)
  /\ calls' = [calls EXCEPT ![c].pc = "status", ![c].jobId = Len(jobs) + 1]
  /\ UNCHANGED <<capsule, capsuleModules, capsuleLessons, scheduled, running, throws, lessonsPerModule, engine, modelOutput,
                sim, fetch, deleted>>

\* lines 42-45
StartUpdateStatus(c) ==
  /\ calls[c].pc = "status"
  /\ capsule' = updateCapsuleStatus(capsule, "generating_outline",
                                    Undefined, NoCount)
  /\ calls' = [calls EXCEPT ![c].pc = "schedule"]
  /\ UNCHANGED <<jobs, capsuleModules, capsuleLessons, scheduled, running, hist, throws, lessonsPerModule, engine, modelOutput,
                sim, fetch, deleted>>

\* lines 48-54
StartSchedule(c) ==
  /\ calls[c].pc = "schedule"
  /\ scheduled' = scheduled \cup
       {Invocation("generateOutline", calls[c].jobId, 0, 0, 0)}
  /\ calls' = [calls EXCEPT ![c] =
                 [pc |-> "done", jobId |-> 0, result |-> "success"]]
  /\ UNCHANGED <<capsule, jobs, capsuleModules, capsuleLessons, running, hist, throws, lessonsPerModule, engine, modelOutput,
                sim, fetch, deleted>>

\* ------------------------------------------------------- generateOutline
\* lines 69-94: the handler starts, reads the capsule and calls the model,
\* which throws, returns the error object or returns an outline of n modules
OutlineBegin(inv) ==
  /\ inv \in scheduled /\ inv.fn = "generateOutline"
  /\ scheduled' = scheduled \ {inv}
  /\ \/ /\ running' = running \cup {Proc(inv, "catch_status", 0, AiErrorMessage, 0)}
        /\ hist' = hist
     \/ \E m \in RejectMessages :
          /\ running' = running \cup {Proc(inv, "reject", 0, m, 0)}
          /\ hist' = [hist EXCEPT ![inv.jobId].rejected = TRUE]
     \/ \E n \in 0..MaxModules :
          /\ running' = running \cup
               {Proc([inv EXCEPT !.outline = n], "status", 0, Undefined, 0)}
          /\ hist' = hist
  /\ UNCHANGED <<capsule, jobs, capsuleModules, capsuleLessons, calls, throws, lessonsPerModule, engine, modelOutput,
                sim, fetch, deleted>>

\* the rejection written without the return of line 93
OutlineRejectNoReturn(p) ==
  /\ p \in running /\ p.fn = "generateOutline" /\ p.pc = "reject"
  /\ capsule' = updateCapsuleStatus(capsule, "failed",
                  OrElse(p.msg, DefaultRejectMessage), NoCount)
  /\ running' = (running \ {p}) \cup {[p EXCEPT !.pc = "status", !.outline = 1]}
  /\ UNCHANGED <<jobs, capsuleModules, capsuleLessons, scheduled, calls, hist,
                 throws, lessonsPerModule, engine, modelOutput,
                sim, fetch, deleted>>

\* lines 87-94
OutlineReject(p) ==
  /\ p \in running /\ p.fn = "generateOutline" /\ p.pc = "reject"
  /\ capsule' = updateCapsuleStatus(capsule, "failed",
                  OrElse(p.msg, DefaultRejectMessage), NoCount)
  /\ running' = running \ {p}
  /\ UNCHANGED <<jobs, capsuleModules, capsuleLessons, scheduled, calls, hist, throws, lessonsPerModule, engine, modelOutput,
                sim, fetch, deleted>>

\* lines 105-112
OutlineUpdateStatus(p) ==
  /\ p \in running /\ p.fn = "generateOutline" /\ p.pc = "status"
  /\ capsule' = updateCapsuleStatus(capsule, "generating_content",
                                    Undefined, p.outline)
  /\ running' = (running \ {p}) \cup {At(p, "job")}
  /\ UNCHANGED <<jobs, capsuleModules, capsuleLessons, scheduled, calls, hist, throws, lessonsPerModule, engine, modelOutput,
                sim, fetch, deleted>>

\* a job update that leaves totalModules as it was
OutlineUpdateJobNoTotal(p) ==
  /\ p \in running /\ p.fn = "generateOutline" /\ p.pc = "job"
  /\ jobs' = [jobs EXCEPT ![p.jobId] =
                [@ EXCEPT !.outlineGenerated = TRUE,
                          !.currentStage = StageName(0)]]
  /\ running' = (running \ {p}) \cup
       {At(p, IF p.outline > 0 THEN "schedule" ELSE "complete_status")}
  /\ UNCHANGED <<capsule, capsuleModules, capsuleLessons, scheduled, calls, hist, throws, lessonsPerModule, engine, modelOutput,
                sim, fetch, deleted>>

\* lines 115-126
OutlineUpdateJob(p) ==
  /\ p \in running /\ p.fn = "generateOutline" /\ p.pc = "job"
  /\ jobs' = [jobs EXCEPT ![p.jobId] =
                [@ EXCEPT !.outlineGenerated = TRUE,
                          !.totalModules = p.outline,
                          !.currentStage = StageName(0)]]
  /\ running' = (running \ {p}) \cup
       {At(p, IF p.outline > 0 THEN "schedule" ELSE "complete_status")}
  /\ UNCHANGED <<capsule, capsuleModules, capsuleLessons, scheduled, calls, hist, throws, lessonsPerModule, engine, modelOutput,
                sim, fetch, deleted>>

\* lines 127-133
OutlineSchedule(p) ==
  /\ p \in running /\ p.fn = "generateOutline" /\ p.pc = "schedule"
  /\ scheduled' = scheduled \cup
       {Invocation("generateModuleContent", p.jobId, 0, p.outline, 0)}
  /\ running' = running \ {p}
  /\ UNCHANGED <<capsule, jobs, capsuleModules, capsuleLessons, calls, hist, throws, lessonsPerModule, engine, modelOutput,
                sim, fetch, deleted>>

\* lines 136-139
OutlineCompleteStatus(p) ==
  /\ p \in running /\ p.fn = "generateOutline" /\ p.pc = "complete_status"
  /\ capsule' = updateCapsuleStatus(capsule, "completed", Undefined, NoCount)
  /\ running' = (running \ {p}) \cup {At(p, "complete_job")}
  /\ UNCHANGED <<jobs, capsuleModules, capsuleLessons, scheduled, calls, hist, throws, lessonsPerModule, engine, modelOutput,
                sim, fetch, deleted>>

\* a completion that leaves the stage of the job as it was
OutlineCompleteJobUnmarked(p) ==
  /\ p \in running /\ p.fn = "generateOutline" /\ p.pc = "complete_job"
  /\ jobs' = [jobs EXCEPT ![p.jobId].completedAt = TRUE]
  /\ running' = running \ {p}
  /\ UNCHANGED <<capsule, capsuleModules, capsuleLessons, scheduled, calls, hist, throws, lessonsPerModule, engine, modelOutput,
                sim, fetch, deleted>>

\* lines 140-146
OutlineCompleteJob(p) ==
  /\ p \in running /\ p.fn = "generateOutline" /\ p.pc = "complete_job"
  /\ jobs' = [jobs EXCEPT ![p.jobId] =
                [@ EXCEPT !.currentStage = "completed", !.completedAt = TRUE]]
  /\ running' = running \ {p}
  /\ UNCHANGED <<capsule, capsuleModules, capsuleLessons, scheduled, calls, hist, throws, lessonsPerModule, engine, modelOutput,
                sim, fetch, deleted>>

\* lines 148-154
OutlineCatchStatus(p) ==
  /\ p \in running /\ p.fn = "generateOutline" /\ p.pc = "catch_status"
  /\ capsule' = updateCapsuleStatus(capsule, "failed", p.msg, NoCount)
  /\ running' = (running \ {p}) \cup {At(p, "catch_job")}
  /\ UNCHANGED <<jobs, capsuleModules, capsuleLessons, scheduled, calls, hist, throws, lessonsPerModule, engine, modelOutput,
                sim, fetch, deleted>>

\* lines 155-160
OutlineCatchJob(p) ==
  /\ p \in running /\ p.fn = "generateOutline" /\ p.pc = "catch_job"
  /\ jobs' = [jobs EXCEPT ![p.jobId].lastError = p.msg]
  /\ running' = running \ {p}
  /\ UNCHANGED <<capsule, capsuleModules, capsuleLessons, scheduled, calls, hist, throws, lessonsPerModule, engine, modelOutput,
                sim, fetch, deleted>>

\* ------------------------------------------------- generateModuleContent
\* lines 178-204: the handler starts, reads the capsule and calls the model,
\* which throws or returns the content of the module with k lessons
ModuleBegin(inv) ==
  /\ inv \in scheduled /\ inv.fn = "generateModuleContent"
  /\ scheduled' = scheduled \ {inv}
  /\ \/ running' = running \cup {Proc(inv, "catch_read", 0, AiErrorMessage, 0)}
     \/ /\ Parses(modelOutput)
        /\ running' = running \cup {Proc(inv, "save", lessonsPerModule, Undefined, 0)}
  /\ UNCHANGED <<capsule, jobs, capsuleModules, capsuleLessons, calls, hist, throws, lessonsPerModule, engine, modelOutput,
                sim, fetch, deleted>>

\* a save that first looks the capsule up and skips the inserts when it is gone
ModuleSaveIfCapsuleExists(p) ==
  /\ p \in running /\ p.fn = "generateModuleContent" /\ p.pc = "save"
  /\ LET tables == IF deleted THEN <<capsuleModules, capsuleLessons>>
                   ELSE saveGeneratedModule(capsuleModules, capsuleLessons,
                                            p.moduleIndex, p.k,
                                            generateModuleContentAI(modelOutput))
     IN /\ capsuleModules' = tables[1]
        /\ capsuleLessons' = tables[2]
        /\ hist' = IF deleted THEN hist
                   ELSE [hist EXCEPT ![p.jobId].saved =
                           Append(@, <<Len(tables[1]), p.moduleIndex, p.k>>)]
  /\ running' = (running \ {p}) \cup {At(p, "job")}
  /\ UNCHANGED <<capsule, jobs, scheduled, calls, throws, lessonsPerModule, engine, modelOutput,
                sim, fetch, deleted>>

\* lines 207-224
ModuleSave(p) ==
  /\ p \in running /\ p.fn = "generateModuleContent" /\ p.pc = "save"
  /\ LET tables == saveGeneratedModule(capsuleModules, capsuleLessons,
                                       p.moduleIndex, p.k,
                                       generateModuleContentAI(modelOutput))
     IN /\ capsuleModules' = tables[1]
        /\ capsuleLessons' = tables[2]
        /\ hist' = [hist EXCEPT ![p.jobId].saved =
                      Append(@, <<Len(tables[1]), p.moduleIndex, p.k>>)]
  /\ running' = (running \ {p}) \cup {At(p, "job")}
  /\ UNCHANGED <<capsule, jobs, scheduled, calls, throws, lessonsPerModule, engine, modelOutput,
                sim, fetch, deleted>>

\* progress that counts the modules before this one only
ModuleProgressOffByOne(job, moduleIndex, outline) ==
  LET nextModuleIndex == moduleIndex + 1
      isLastModule == nextModuleIndex >= outline
  IN [job EXCEPT !.modulesGenerated = moduleIndex,
                 !.currentModuleIndex = nextModuleIndex,
                 !.currentStage = IF isLastModule THEN "finalizing"
                                  ELSE StageName(nextModuleIndex)]

\* lines 227-237: the job fields written after a module was saved
ModuleProgress(job, moduleIndex, outline) ==
  LET nextModuleIndex == moduleIndex + 1
      isLastModule == nextModuleIndex >= outline
  IN [job EXCEPT !.modulesGenerated = nextModuleIndex,
                 !.currentModuleIndex = nextModuleIndex,
                 !.currentStage = IF isLastModule THEN "finalizing"
                                  ELSE StageName(nextModuleIndex)]

ModuleUpdateJob(p) ==
  /\ p \in running /\ p.fn = "generateModuleContent" /\ p.pc = "job"
  /\ jobs' = [jobs EXCEPT ![p.jobId] = ModuleProgress(@, p.moduleIndex, p.outline)]
  /\ running' = (running \ {p}) \cup {At(p, "schedule")}
  /\ UNCHANGED <<capsule, capsuleModules, capsuleLessons, scheduled, calls, hist, throws, lessonsPerModule, engine, modelOutput,
                sim, fetch, deleted>>

\* a step that schedules the next module even after the last one
ModuleScheduleAlwaysNext(p) ==
  /\ p \in running /\ p.fn = "generateModuleContent" /\ p.pc = "schedule"
  /\ scheduled' = scheduled \cup
       {Invocation("generateModuleContent", p.jobId,
                   p.moduleIndex + 1, p.outline, 0)}
  /\ running' = running \ {p}
  /\ hist' = [hist EXCEPT ![p.jobId].streak = 0, ![p.jobId].delays = <<>>]
  /\ UNCHANGED <<capsule, jobs, capsuleModules, capsuleLessons, calls, throws, lessonsPerModule, engine, modelOutput,
                sim, fetch, deleted>>

\* lines 239-255: finalize after the last module, else the next module
ModuleSchedule(p) ==
  /\ p \in running /\ p.fn = "generateModuleContent" /\ p.pc = "schedule"
  /\ scheduled' = scheduled \cup
       {IF p.moduleIndex + 1 >= p.outline
        THEN Invocation("finalizeGeneration", p.jobId, 0, 0, 0)
        ELSE Invocation("generateModuleContent", p.jobId,
                        p.moduleIndex + 1, p.outline, 0)}
  /\ running' = running \ {p}
  /\ hist' = [hist EXCEPT ![p.jobId].streak = 0, ![p.jobId].delays = <<>>]
  /\ UNCHANGED <<capsule, jobs, capsuleModules, capsuleLessons, calls, throws, lessonsPerModule, engine, modelOutput,
                sim, fetch, deleted>>

\* line 266: whether a failed module step is scheduled again
ShouldRetry(retryCount) == retryCount < MaxRetries

\* lines 260-266: read the job, count this failure, choose the branch
ModuleCatchRead(p) ==
  /\ p \in running /\ p.fn = "generateModuleContent" /\ p.pc = "catch_read"
  /\ LET retryCount == jobs[p.jobId].retryCount + 1
     IN running' = (running \ {p}) \cup
          {[p EXCEPT !.retryCount = retryCount,
                     !.pc = IF ShouldRetry(retryCount) THEN "retry_job"
                            ELSE "fail_status"]}
  /\ UNCHANGED <<capsule, jobs, capsuleModules, capsuleLessons,
                 scheduled, calls, hist, throws, lessonsPerModule, engine, modelOutput,
                sim, fetch, deleted>>

\* lines 268-274
ModuleRetryJob(p) ==
  /\ p \in running /\ p.fn = "generateModuleContent" /\ p.pc = "retry_job"
  /\ jobs' = [jobs EXCEPT ![p.jobId] =
                [@ EXCEPT !.retryCount = p.retryCount, !.lastError = p.msg]]
  /\ running' = (running \ {p}) \cup {At(p, "retry_schedule")}
  /\ hist' = [hist EXCEPT ![p.jobId].streak = @ + 1]
  /\ UNCHANGED <<capsule, capsuleModules, capsuleLessons, scheduled, calls, throws, lessonsPerModule, engine, modelOutput,
                sim, fetch, deleted>>

\* lines 277-284
ModuleRetrySchedule(p) ==
  /\ p \in running /\ p.fn = "generateModuleContent" /\ p.pc = "retry_schedule"
  /\ scheduled' = scheduled \cup
       {Invocation("generateModuleContent", p.jobId, p.moduleIndex,
                   p.outline, BackoffDelay(p.retryCount))}
  /\ running' = running \ {p}
  /\ hist' = [hist EXCEPT ![p.jobId].delays =
                Append(@, BackoffDelay(p.retryCount))]
  /\ UNCHANGED <<capsule, jobs, capsuleModules, capsuleLessons, calls, throws, lessonsPerModule, engine, modelOutput,
                sim, fetch, deleted>>

\* a give-up that records nothing on the capsule
ModuleFailStatusSilent(p) ==
  /\ p \in running /\ p.fn = "generateModuleContent" /\ p.pc = "fail_status"
  /\ running' = (running \ {p}) \cup {At(p, "fail_job")}
  /\ hist' = [hist EXCEPT ![p.jobId].streak = @ + 1, ![p.jobId].gaveUp = TRUE]
  /\ UNCHANGED <<capsule, jobs, capsuleModules, capsuleLessons, scheduled, calls, throws, lessonsPerModule, engine, modelOutput,
                sim, fetch, deleted>>

\* lines 287-291
ModuleFailStatus(p) ==
  /\ p \in running /\ p.fn = "generateModuleContent" /\ p.pc = "fail_status"
  /\ capsule' = updateCapsuleStatus(capsule, "failed",
                  ModuleFailedMessage(p.moduleIndex), NoCount)
  /\ running' = (running \ {p}) \cup {At(p, "fail_job")}
  /\ hist' = [hist EXCEPT ![p.jobId].streak = @ + 1, ![p.jobId].gaveUp = TRUE]
  /\ UNCHANGED <<jobs, capsuleModules, capsuleLessons, scheduled, calls, throws, lessonsPerModule, engine, modelOutput,
                sim, fetch, deleted>>

\* a give-up that also starts the retry count of the job afresh
ModuleFailJobResetting(p) ==
  /\ p \in running /\ p.fn = "generateModuleContent" /\ p.pc = "fail_job"
  /\ jobs' = [jobs EXCEPT ![p.jobId] =
                [@ EXCEPT !.lastError = p.msg, !.retryCount = 0]]
  /\ running' = running \ {p}
  /\ UNCHANGED <<capsule, capsuleModules, capsuleLessons, scheduled, calls, hist, throws, lessonsPerModule, engine, modelOutput,
                sim, fetch, deleted>>

\* lines 292-297
ModuleFailJob(p) ==
  /\ p \in running /\ p.fn = "generateModuleContent" /\ p.pc = "fail_job"
  /\ jobs' = [jobs EXCEPT ![p.jobId].lastError = p.msg]
  /\ running' = running \ {p}
  /\ UNCHANGED <<capsule, capsuleModules, capsuleLessons, scheduled, calls, hist, throws, lessonsPerModule, engine, modelOutput,
                sim, fetch, deleted>>

\* ---------------------------------------------------- finalizeGeneration
\* line 313: the handler starts
FinalizeBegin(inv) ==
  /\ inv \in scheduled /\ inv.fn = "finalizeGeneration"
  /\ scheduled' = scheduled \ {inv}
  /\ running' = running \cup {Proc(inv, "status", 0, Undefined, 0)}
  /\ UNCHANGED <<capsule, jobs, capsuleModules, capsuleLessons, calls, hist,
                 throws, lessonsPerModule, engine, modelOutput,
                sim, fetch, deleted>>

\* lines 316-319
FinalizeUpdateStatus(p) ==
  /\ p \in running /\ p.fn = "finalizeGeneration" /\ p.pc = "status"
  /\ capsule' = updateCapsuleStatus(capsule, "completed", Undefined, NoCount)
  /\ running' = (running \ {p}) \cup {At(p, "job")}
  /\ UNCHANGED <<jobs, capsuleModules, capsuleLessons, scheduled, calls, hist,
                 throws, lessonsPerModule, engine, modelOutput,
                sim, fetch, deleted>>

\* lines 322-330
FinalizeUpdateJob(p) ==
  /\ p \in running /\ p.fn = "finalizeGeneration" /\ p.pc = "job"
  /\ jobs' = [jobs EXCEPT ![p.jobId] =
                [@ EXCEPT !.currentStage = "completed", !.completedAt = TRUE]]
  /\ running' = running \ {p}
  /\ UNCHANGED <<capsule, capsuleModules, capsuleLessons, scheduled, calls, hist, throws, lessonsPerModule, engine, modelOutput,
                sim, fetch, deleted>>

\* lines 331-338
FinalizeCatch(p) ==
  /\ p \in running /\ p.fn = "finalizeGeneration" /\ p.pc = "catch_status"
  /\ capsule' = updateCapsuleStatus(capsule, "failed",
                                    FinalizeFailedMessage, NoCount)
  /\ running' = running \ {p}
  /\ UNCHANGED <<jobs, capsuleModules, capsuleLessons, scheduled, calls, hist, throws, lessonsPerModule, engine, modelOutput,
                sim, fetch, deleted>>

\* --------------------------------------------------------------- throws
\* the awaited runMutation / runAfter calls that sit inside a try block
TryPcs(fn) ==
  IF fn = "generateOutline"
  THEN {"reject", "status", "job", "schedule", "complete_status", "complete_job"}
  ELSE IF fn = "generateModuleContent" THEN {"save", "job", "schedule"}
  ELSE {"status", "job"}

\* where the catch block of a handler starts
CatchPc(fn) == IF fn = "generateModuleContent" THEN "catch_read"
               ELSE "catch_status"

\* an exception that leaves the handler instead of reaching its catch block
ThrowUncaught(p) ==
  /\ p \in running /\ p.pc \in TryPcs(p.fn)
  /\ throws < MaxThrows
  /\ throws' = throws + 1
  /\ running' = running \ {p}
  /\ UNCHANGED <<capsule, jobs, capsuleModules, capsuleLessons,
                 scheduled, calls, hist, lessonsPerModule, engine, modelOutput,
                sim, fetch, deleted>>

\* the call the invocation is about to make throws instead of taking effect
Throw(p) ==
  /\ p \in running /\ p.pc \in TryPcs(p.fn)
  /\ throws < MaxThrows
  /\ throws' = throws + 1
  /\ running' = (running \ {p}) \cup
       {[p EXCEPT !.pc = CatchPc(p.fn), !.msg = ServerErrorMessage]}
  /\ UNCHANGED <<capsule, jobs, capsuleModules, capsuleLessons,
                 scheduled, calls, hist, lessonsPerModule, engine, modelOutput,
                sim, fetch, deleted>>

\* ------------------------------------------------------------------ Next
\* one invocation of generateCapsuleContent by caller c
Call(c) ==
  \/ StartRead(c)
  \/ StartCreateJob(c)
  \/ StartUpdateStatus(c)
  \/ StartSchedule(c)

\* the steps of the scheduled stage handlers
Stage ==
  \/ \E inv \in scheduled : OutlineBegin(inv)
  \/ \E p \in running : OutlineReject(p)
  \/ \E p \in running : OutlineUpdateStatus(p)
  \/ \E p \in running : OutlineUpdateJob(p)
  \/ \E p \in running : OutlineSchedule(p)
  \/ \E p \in running : OutlineCompleteStatus(p)
  \/ \E p \in running : OutlineCompleteJob(p)
  \/ \E p \in running : OutlineCatchStatus(p)
  \/ \E p \in running : OutlineCatchJob(p)
  \/ \E inv \in scheduled : ModuleBegin(inv)
  \/ \E p \in running : ModuleSave(p)
  \/ \E p \in running : ModuleUpdateJob(p)
  \/ \E p \in running : ModuleSchedule(p)
  \/ \E p \in running : ModuleCatchRead(p)
  \/ \E p \in running : ModuleRetryJob(p)
  \/ \E p \in running : ModuleRetrySchedule(p)
  \/ \E p \in running : ModuleFailStatus(p)
  \/ \E p \in running : ModuleFailJob(p)
  \/ \E inv \in scheduled : FinalizeBegin(inv)
  \/ \E p \in running : FinalizeUpdateStatus(p)
  \/ \E p \in running : FinalizeUpdateJob(p)

\* an awaited call in a try block throws; the catch block of
\* finalizeGeneration runs only then
Fault ==
  \/ \E p \in running : Throw(p)
  \/ \E p \in running : FinalizeCatch(p)

\* Calls made one after the other; any awaited call in a try block may throw.
Next ==
  \/ Call("c1")
  \/ Stage
  \/ Fault

Spec == Init /\ [][Next]_vars

\* the single call of caller c in the race
CallOnce(c) ==
  \/ calls[c].pc = "idle" /\ StartRead(c)
  \/ StartCreateJob(c)
  \/ StartUpdateStatus(c)
  \/ StartSchedule(c)

\* Two calls, one per caller, that may overlap; no call throws.
NextRace ==
  \/ \E c \in Callers : CallOnce(c)
  \/ Stage

SpecRace == Init /\ [][NextRace]_vars

\* One call whose awaited steps are all taken in the end: the Convex runtime
\* runs an action to its end and runs every scheduled function, and a model
\* call returns or fails.  That a call throws is never forced.
HandlerStep ==
  \/ Stage
  \/ \E p \in running : FinalizeCatch(p)

CallStep == StartCreateJob("c1") \/ StartUpdateStatus("c1") \/ StartSchedule("c1")

NextLive ==
  \/ CallOnce("c1")
  \/ Stage
  \/ Fault

SpecLive ==
  /\ Init /\ [][NextLive]_vars
  /\ WF_vars(HandlerStep)
  /\ WF_vars(CallStep)

\* A scheduled invocation dies before its handler has made any call: it is
\* gone from the scheduler and nothing else has changed.
Crash(inv) ==
  /\ inv \in scheduled
  /\ scheduled' = scheduled \ {inv}
  /\ UNCHANGED <<capsule, jobs, capsuleModules, capsuleLessons, running, calls,
                 hist, throws, lessonsPerModule, engine, modelOutput,
                sim, fetch, deleted>>

\* Calls made one after the other, the retry of part_000 line 187 among them;
\* a scheduled invocation may die.
NextCrash ==
  \/ Call("c1")
  \/ Stage
  \/ \E inv \in scheduled : Crash(inv)

SpecCrash == Init /\ [][NextCrash]_vars

\* One call; the model answers every module-content call with the same text,
\* which is any of ModelOutputs.
InitContent ==
  /\ InitTables
  /\ lessonsPerModule = MaxLessons
  /\ engine = IdleEngine
  /\ modelOutput \in ModelOutputs
  /\ sim = IdleSim
  /\ fetch = IdleFetch
  /\ deleted = FALSE

NextContent ==
  \/ CallOnce("c1")
  \/ Stage

SpecContent == InitContent /\ [][NextContent]_vars

\* ------------------------------------------------------- deleteCapsule
\* capsules.ts lines 286-319: one mutation removes the capsule's lessons,
\* modules and jobs and then the capsule.  The mutation is public; here it
\* is called while a generateModuleContent invocation has read the capsule
\* and not yet saved its module.
deleteCapsule ==
  /\ ~deleted
  /\ \E p \in running : p.fn = "generateModuleContent" /\ p.pc = "save"
  /\ capsuleLessons' = <<>>
  /\ capsuleModules' = <<>>
  /\ jobs' = <<>>
  /\ deleted' = TRUE
  /\ UNCHANGED <<capsule, scheduled, running, calls, hist, throws,
                 lessonsPerModule, engine, modelOutput, sim, fetch>>

\* capsuleGeneration.ts lines 230 and 256-267 with capsules.ts line 369:
\* after the save the invocation patches its job, which is gone; the patch
\* throws, the catch block reads no job, takes retryCount for 1 and patches
\* the job again, and that throw ends the invocation.
ModuleJobGone(p) ==
  /\ deleted
  /\ p \in running /\ p.fn = "generateModuleContent" /\ p.pc = "job"
  /\ running' = running \ {p}
  /\ UNCHANGED <<capsule, jobs, capsuleModules, capsuleLessons, scheduled,
                 calls, hist, throws, lessonsPerModule, engine, modelOutput,
                 sim, fetch, deleted>>

NextDelete ==
  \/ ~deleted /\ CallOnce("c1")
  \/ ~deleted /\ Stage
  \/ deleteCapsule
  \/ deleted /\ \E p \in running : ModuleSave(p)
  \/ \E p \in running : ModuleJobGone(p)

SpecDelete == Init /\ [][NextDelete]_vars

\* ================================================= the output repair engine
\* chrome-extension/content.js: validateAndCorrectJson and its helpers.
\* A text is a JSON document with a string field content and an optional
\* array field callouts (two fields of noteSectionSchema), possibly wrapped
\* in a markdown fence.  Of the text the model keeps the characters between
\* the quotes of the string literal, which is the only place of the document
\* where a backslash can stand.
Backslash == "\\"
Newline == "<LF>"                 \* the decoded character U+000A
Letters == {"m", "n", "u"}        \* [a-zA-Z] within the alphabet
Alphabet == {Backslash} \cup Letters

\* lines 104-160, the commands that can be spelled with the alphabet
latexCommands == << <<"m", "u">>, <<"n", "u">> >>

\* a pattern without the lookbehind for a preceding backslash
MatchesAnyBackslash(s, cmd, i) ==
  /\ i + Len(cmd) <= Len(s)
  /\ s[i] = Backslash
  /\ \A j \in 1..Len(cmd) : s[i + j] = cmd[j]
  /\ (i + Len(cmd) < Len(s) => s[i + Len(cmd) + 1] \notin Letters)

\* lines 163-166: (?<!\\)\\cmd(?![a-zA-Z]) matches s at position i
Matches(s, cmd, i) ==
  /\ i + Len(cmd) <= Len(s)
  /\ s[i] = Backslash
  /\ (i > 1 => s[i - 1] # Backslash)
  /\ \A j \in 1..Len(cmd) : s[i + j] = cmd[j]
  /\ (i + Len(cmd) < Len(s) => s[i + Len(cmd) + 1] \notin Letters)

\* line 167: result.replace(pattern, `\\\\${cmd}`) with the g flag, from
\* position i on; every match becomes two backslashes and the command
RECURSIVE ReplaceAll(_, _, _)
ReplaceAll(s, cmd, i) ==
  IF i > Len(s) THEN <<>>
  ELSE IF Matches(s, cmd, i)
       THEN <<Backslash, Backslash>> \o cmd \o ReplaceAll(s, cmd, i + Len(cmd) + 1)
       ELSE <<s[i]>> \o ReplaceAll(s, cmd, i + 1)

\* lines 161-168: the loop over the commands, from command c on
RECURSIVE FixFrom(_, _)
FixFrom(s, c) ==
  IF c > Len(latexCommands) THEN s
  ELSE FixFrom(ReplaceAll(s, latexCommands[c], 1), c + 1)

fixLatexEscapes(jsonString) == FixFrom(jsonString, 1)

\* fixLatexEscapes applied to a whole text
fixLatexEscapesIn(text) == [text EXCEPT !.content = fixLatexEscapes(@)]

\* lines 196-210: the fence is removed; a document that starts with { and
\* ends with } is otherwise returned as it is
stripMarkdownFences(raw) == [raw EXCEPT !.fenced = FALSE]

\* JSON.parse of a string literal: \\ and \n are escapes of the alphabet, \u
\* needs four hexadecimal digits and \m is no escape at all
RECURSIVE ValidEscapes(_, _)
ValidEscapes(s, i) ==
  IF i > Len(s) THEN TRUE
  ELSE IF s[i] # Backslash THEN ValidEscapes(s, i + 1)
  ELSE /\ i < Len(s)
       /\ s[i + 1] \in {Backslash, "n"}
       /\ ValidEscapes(s, i + 2)

RECURSIVE Unescape(_, _)
Unescape(s, i) ==
  IF i > Len(s) THEN <<>>
  ELSE IF s[i] # Backslash THEN <<s[i]>> \o Unescape(s, i + 1)
  ELSE <<IF s[i + 1] = "n" THEN Newline ELSE Backslash>> \o Unescape(s, i + 2)

\* JSON.parse throws on a fenced text and on an invalid escape
CanParse(text) == ~text.fenced /\ ValidEscapes(text.content, 1)

JsonParse(text) ==
  LET content == [type |-> "string", chars |-> Unescape(text.content, 1)]
      callouts == [type |-> "array",
                   items |-> IF text.callouts = "empty" THEN <<>>
                             ELSE <<"callout">>]
  IN IF text.callouts = "absent" THEN [content |-> content]
     ELSE [content |-> content, callouts |-> callouts]

\* lines 176-191, for an object whose values are strings and arrays
removeEmptyArrays(obj) ==
  LET kept == {key \in DOMAIN obj :
                 ~(obj[key].type = "array" /\ obj[key].items = <<>>)}
  IN [key \in kept |-> obj[key]]

\* schema.parse: without a schema every value passes; noteSectionSchema wants
\* content: z.string().min(1) and callouts: z.array(..).max(4).optional()
Schemas == {"none", "noteSectionSchema"}
SchemaAccepts(schema, obj) ==
  schema = "none" \/ obj.content.chars # <<>>

\* JSON.stringify of a parsed value
RECURSIVE Escape(_)
Escape(chars) ==
  IF chars = <<>> THEN <<>>
  ELSE (IF Head(chars) = Backslash THEN <<Backslash, Backslash>>
        ELSE IF Head(chars) = Newline THEN <<Backslash, "n">>
        ELSE <<Head(chars)>>) \o Escape(Tail(chars))

JsonStringify(obj) ==
  [fenced |-> FALSE,
   content |-> Escape(obj.content.chars),
   callouts |-> IF "callouts" \notin DOMAIN obj THEN "absent"
                ELSE IF obj.callouts.items = <<>> THEN "empty" ELSE "filled"]

\* ------------------------------------------------ validateAndCorrectJson
MaxLen == 4          \* characters of the string literal of an input text
MaxAttempts == 2     \* largest value passed as options.maxAttempts
DEFAULT_ATTEMPTS == 5

Docs == [fenced : BOOLEAN, content : SeqsUpTo(Alphabet, MaxLen),
         callouts : {"absent", "empty", "filled"}]

\* what the repair model may answer: an empty string, a plain string, a
\* dangling backslash, a single-backslash command
RepairOutputs == [fenced : BOOLEAN,
                  content : {<<>>, <<"m">>, <<Backslash>>, <<Backslash, "m", "u">>},
                  callouts : {"absent", "empty"}]

NoResult == "<none>"

\* lines 248-266: the arguments and the variables of one run
NewEngine(jsonString, schema, maxAttempts) ==
  [pc |-> "start", jsonString |-> jsonString, schema |-> schema,
   maxAttempts |-> IF maxAttempts = NoCount THEN DEFAULT_ATTEMPTS
                   ELSE maxAttempts,
   currentJson |-> jsonString, attempt |-> 0,
   cycles |-> 0, repairCalls |-> 0, result |-> NoResult]

\* line 268
validateAndCorrectJson ==
  /\ engine.pc = "start"
  /\ engine' = [engine EXCEPT !.pc = "try",
                              !.currentJson = stripMarkdownFences(engine.jsonString)]
  /\ UNCHANGED <<pipeline, sim, fetch, deleted>>

\* a loop that runs once more than maxAttempts
LoopContinuesInclusive(attempt, maxAttempts) == attempt <= maxAttempts

\* line 271: the condition of the for loop
LoopContinues(attempt, maxAttempts) == attempt < maxAttempts

\* lines 272-282: one parse/validate cycle
TryParse ==
  /\ engine.pc = "try"
  /\ LoopContinues(engine.attempt, engine.maxAttempts)
  /\ LET cleanJson == fixLatexEscapesIn(stripMarkdownFences(engine.currentJson))
         parsed == removeEmptyArrays(JsonParse(cleanJson))
     IN IF CanParse(cleanJson) /\ SchemaAccepts(engine.schema, parsed)
        THEN engine' = [engine EXCEPT !.pc = "returned",
                                      !.cycles = @ + 1,
                                      !.result = JsonStringify(parsed)]
        ELSE engine' = [engine EXCEPT !.pc = "catch", !.cycles = @ + 1]
  /\ UNCHANGED <<pipeline, sim, fetch, deleted>>

\* lines 283-298: the catch block calls the repair model, which answers with
\* a new candidate or fails; a failure leaves validateAndCorrectJson as the
\* rejection of the call
repairStructuredJson ==
  /\ engine.pc = "catch"
  /\ \/ \E answer \in RepairOutputs :
          engine' = [engine EXCEPT !.pc = "try",
                                   !.repairCalls = @ + 1,
                                   !.currentJson = stripMarkdownFences(answer),
                                   !.attempt = @ + 1]
     \/ engine' = [engine EXCEPT !.pc = "repair_failed", !.repairCalls = @ + 1]
  /\ UNCHANGED <<pipeline, sim, fetch, deleted>>

\* lines 301-303: the loop is left without a valid document
AttemptsExhausted ==
  /\ engine.pc = "try"
  /\ ~LoopContinues(engine.attempt, engine.maxAttempts)
  /\ engine' = [engine EXCEPT !.pc = "exhausted"]
  /\ UNCHANGED <<pipeline, sim, fetch, deleted>>

InitRepair ==
  /\ InitTables
  /\ lessonsPerModule = 0
  /\ modelOutput = PlainOutput
  /\ sim = IdleSim
  /\ fetch = IdleFetch
  /\ deleted = FALSE
  /\ engine \in {NewEngine(d, s, m) : d \in Docs, s \in Schemas,
                                       m \in {NoCount} \cup 1..MaxAttempts}

NextRepair ==
  \/ validateAndCorrectJson
  \/ TryParse
  \/ repairStructuredJson
  \/ AttemptsExhausted

SpecRepair == InitRepair /\ [][NextRepair]_vars

\* Runs on texts whose string literal is a run of backslashes in front of a
\* word of at most two letters.
MaxBackslashes == 3

RECURSIVE Backslashes(_)
Backslashes(k) == IF k = 0 THEN <<>> ELSE <<Backslash>> \o Backslashes(k - 1)

EscapeDocs ==
  [fenced : BOOLEAN,
   content : {Backslashes(k) \o w : k \in 0..MaxBackslashes,
                                    w \in SeqsUpTo(Letters, 2)},
   callouts : {"absent", "empty", "filled"}]

InitEscapes ==
  /\ InitTables
  /\ lessonsPerModule = 0
  /\ modelOutput = PlainOutput
  /\ sim = IdleSim
  /\ fetch = IdleFetch
  /\ deleted = FALSE
  /\ engine \in {NewEngine(d, s, m) : d \in EscapeDocs, s \in Schemas,
                                       m \in {NoCount} \cup 1..MaxAttempts}

SpecEscapes == InitEscapes /\ [][NextRepair]_vars

\* ---------------------------------------------- generateSimulationIdeas
\* src/components/notes/confetti-celebration.tsx and the mutations of
\* src/unnamed/part_009
MaxIdeas == 2
MaxRuns == 2
IdeaIds == {"idea-a", "idea-b"}
ReasonMessage == "reason given by the model"
GeminiErrorMessage == "Gemini API error"
InvalidStructureMessage == "Invalid response structure"

\* what extractJSON hands back: isApplicable may not be a boolean and
\* simulations may not be an array
Results ==
  [typeofIsApplicable : {"boolean", "other"}, isApplicable : BOOLEAN,
   isArray : BOOLEAN, simulations : SeqsUpTo(IdeaIds, MaxIdeas),
   reason : {ReasonMessage}]

\* line 332, negated
ValidStructure(result) ==
  result.typeofIsApplicable = "boolean" /\ result.isArray

\* an answer that takes every non-empty list for applicable
NotApplicableByListOnly(result) == Len(result.simulations) = 0

\* line 337
NotApplicable(result) ==
  ~result.isApplicable \/ Len(result.simulations) = 0

\* part_009 lines 585-617: the status row is created or patched; a patch
\* with error undefined removes the field
updateIdeasStatus(row, status, error) ==
  [row EXCEPT !.status = status, !.error = error]

\* part_009 lines 621-666: one row per (videoId, ideaId)
createSimulationIdea(rows, ideaId) == rows \cup {ideaId}

\* lines 300-307
SimStart ==
  /\ sim.pc \in {"idle", "done"}
  /\ sim.runs < MaxRuns
  /\ sim' = [updateIdeasStatus(sim, "generating", Undefined) EXCEPT
               !.pc = "call", !.runs = @ + 1, !.result = <<>>, !.i = 0,
               !.returned = <<>>, !.created = 0, !.threw = FALSE]
  /\ UNCHANGED <<pipeline, engine, fetch, deleted>>

\* lines 318-337: the model call fails, or its answer is rejected, or its
\* answer picks the branch
SimCall ==
  /\ sim.pc = "call"
  /\ \/ sim' = [sim EXCEPT !.pc = "catch", !.error = GeminiErrorMessage]
     \/ \E result \in Results :
          sim' = IF ~ValidStructure(result)
                 THEN [sim EXCEPT !.pc = "catch", !.result = <<result>>,
                                  !.error = InvalidStructureMessage]
                 ELSE IF NotApplicable(result)
                 THEN [sim EXCEPT !.pc = "not_applicable",
                                  !.result = <<result>>]
                 ELSE [sim EXCEPT !.pc = "create", !.result = <<result>>,
                                  !.i = 1]
  /\ UNCHANGED <<pipeline, engine, fetch, deleted>>

\* lines 338-343
SimNotApplicable ==
  /\ sim.pc = "not_applicable"
  /\ sim' = [updateIdeasStatus(sim, "not-applicable", sim.result[1].reason)
             EXCEPT !.pc = "done", !.returned = <<[success |-> TRUE]>>]
  /\ UNCHANGED <<pipeline, engine, fetch, deleted>>

\* lines 347-356: one createSimulationIdea per idea of the answer
SimCreate ==
  /\ sim.pc = "create"
  /\ sim.i <= Len(sim.result[1].simulations)
  /\ sim' = [sim EXCEPT
               !.simulations =
                  createSimulationIdea(@, sim.result[1].simulations[sim.i]),
               !.i = @ + 1, !.created = @ + 1]
  /\ UNCHANGED <<pipeline, engine, fetch, deleted>>

\* lines 359-364
SimCompleted ==
  /\ sim.pc = "create"
  /\ sim.i > Len(sim.result[1].simulations)
  /\ sim' = [updateIdeasStatus(sim, "completed", Undefined)
             EXCEPT !.pc = "done", !.returned = <<[success |-> TRUE]>>]
  /\ UNCHANGED <<pipeline, engine, fetch, deleted>>

\* lines 309, 365: a mutation awaited inside the try block throws
SimThrow ==
  /\ sim.pc \in {"not_applicable", "create"}
  /\ sim' = [sim EXCEPT !.pc = "catch", !.error = ServerErrorMessage,
                        !.threw = TRUE]
  /\ UNCHANGED <<pipeline, engine, fetch, deleted>>

\* lines 365-376
SimCatch ==
  /\ sim.pc = "catch"
  /\ sim' = [updateIdeasStatus(sim, "failed", sim.error)
             EXCEPT !.pc = "done", !.returned = <<[success |-> FALSE]>>]
  /\ UNCHANGED <<pipeline, engine, fetch, deleted>>

InitSim ==
  /\ InitTables
  /\ lessonsPerModule = 0
  /\ engine = IdleEngine
  /\ modelOutput = PlainOutput
  /\ fetch = IdleFetch
  /\ deleted = FALSE
  /\ sim = IdleSim

NextSim ==
  \/ SimStart
  \/ SimCall
  \/ SimNotApplicable
  \/ SimCreate
  \/ SimCompleted
  \/ SimThrow
  \/ SimCatch

SpecSim == InitSim /\ [][NextSim]_vars

\* ------------------------------------------------------- fetchTranscript
\* src/unnamed/part_011
CONFIG == [requestTimeout |-> 30000, maxRetries |-> 3,
           initialRetryDelay |-> 1000]

\* lines 145-155: the statuses the table knows, and one it does not know
ErrorStatuses == {400, 401, 402, 404, 408, 422, 429, 500, 503, 418}

errorMessages ==
  [status \in ErrorStatuses |->
     CASE status = 400 -> [code |-> "BAD_REQUEST", retryable |-> FALSE]
       [] status = 401 -> [code |-> "UNAUTHORIZED", retryable |-> FALSE]
       [] status = 402 -> [code |-> "PAYMENT_REQUIRED", retryable |-> FALSE]
       [] status = 404 -> [code |-> "NOT_FOUND", retryable |-> FALSE]
       [] status = 408 -> [code |-> "TIMEOUT", retryable |-> TRUE]
       [] status = 422 -> [code |-> "VALIDATION_ERROR", retryable |-> FALSE]
       [] status = 429 -> [code |-> "RATE_LIMITED", retryable |-> TRUE]
       [] status = 500 -> [code |-> "SERVER_ERROR", retryable |-> FALSE]
       [] status = 503 -> [code |-> "SERVICE_UNAVAILABLE", retryable |-> TRUE]
       [] OTHER -> [code |-> "UNKNOWN_ERROR", retryable |-> FALSE]]

\* lines 143-169
parseErrorResponse(status) == errorMessages[status]

\* The Retry-After header of a response: absent, a number of seconds, or an
\* HTTP date that lies the given number of seconds ahead (RFC 9110 10.2.3
\* allows both forms).
RetryAfterHeaders ==
  {[kind |-> "absent", seconds |-> 0]}
    \cup [kind : {"seconds"}, seconds : {0, 2}]
    \cup [kind : {"date"}, seconds : {5}]

\* a JavaScript number: NaN or an integer
NaN == [isNaN |-> TRUE, value |-> 0]
Num(v) == [isNaN |-> FALSE, value |-> v]

\* line 263: parseInt(retryAfter, 10) reads the leading decimal digits; a
\* date starts with the name of a weekday and has none
parseInt(header) ==
  IF header.kind = "seconds" THEN Num(header.seconds) ELSE NaN

\* lines 262-263
WaitTime(header, retryDelay) ==
  IF header.kind # "absent"
  THEN LET n == parseInt(header)
       IN IF n.isNaN THEN NaN ELSE Num(n.value * 1000)
  ELSE Num(retryDelay)

\* lines 174-176: setTimeout takes a delay that is NaN for 0
sleep(ms) == IF ms.isNaN THEN 0 ELSE ms.value

\* lines 190-232: the call ends before any request when the video id or the
\* API key is missing
FetchStart ==
  /\ fetch.pc = "idle"
  /\ \/ \E code \in {"INVALID_VIDEO_ID", "MISSING_API_KEY"} :
          fetch' = [fetch EXCEPT !.pc = "thrown", !.code = code]
     \/ fetch' = [fetch EXCEPT !.pc = "request", !.attempt = 0,
                               !.retryDelay = CONFIG.initialRetryDelay]
  /\ UNCHANGED <<pipeline, engine, sim, deleted>>

\* lines 232-246, 275-328: a request that is answered with a transcript, or
\* with a body of an unexpected shape, or is aborted by the timer, or fails
\* in the network
FetchAnswered ==
  /\ fetch.pc = "request"
  /\ fetch.attempt <= CONFIG.maxRetries
  /\ \E outcome \in {"ok", "format", "abort", "network"} :
       fetch' = [fetch EXCEPT
                   !.requests = @ + 1,
                   !.outcome = outcome,
                   !.status = IF outcome \in {"ok", "format"} THEN 200 ELSE 0,
                   !.pc = IF outcome = "ok" THEN "returned" ELSE "thrown",
                   !.code = CASE outcome = "ok" -> Undefined
                              [] outcome = "format" -> "PARSE_ERROR"
                              [] outcome = "abort" -> "TIMEOUT"
                              [] outcome = "network" -> "NETWORK_ERROR"]
  /\ UNCHANGED <<pipeline, engine, sim, deleted>>

\* lines 232-272: a request that is answered with an error status; a
\* retryable status on the last turn is thrown at line 272, so the loop is
\* never left at its end and line 335 is not reached
FetchRefused ==
  /\ fetch.pc = "request"
  /\ fetch.attempt <= CONFIG.maxRetries
  /\ \E status \in ErrorStatuses, header \in RetryAfterHeaders :
       LET error == parseErrorResponse(status)
       IN fetch' = IF error.retryable /\ fetch.attempt < CONFIG.maxRetries
                   THEN [fetch EXCEPT !.requests = @ + 1,
                                      !.outcome = "status",
                                      !.status = status,
                                      !.headers = Append(@, header),
                                      !.pc = "sleep"]
                   ELSE [fetch EXCEPT !.requests = @ + 1,
                                      !.outcome = "status",
                                      !.status = status,
                                      !.code = error.code,
                                      !.pc = "thrown"]
  /\ UNCHANGED <<pipeline, engine, sim, deleted>>

\* lines 262-269: the wait, then the next turn of the loop
FetchSleep ==
  /\ fetch.pc = "sleep"
  /\ LET header == fetch.headers[Len(fetch.headers)]
         waitTime == WaitTime(header, fetch.retryDelay)
     IN fetch' = [fetch EXCEPT !.waits = Append(@, sleep(waitTime)),
                               !.retryDelay = @ * 2,
                               !.attempt = @ + 1,
                               !.pc = "request"]
  /\ UNCHANGED <<pipeline, engine, sim, deleted>>

InitFetch ==
  /\ InitTables
  /\ lessonsPerModule = 0
  /\ engine = IdleEngine
  /\ modelOutput = PlainOutput
  /\ sim = IdleSim
  /\ deleted = FALSE
  /\ fetch = IdleFetch

NextFetch ==
  \/ FetchStart
  \/ FetchAnswered
  \/ FetchRefused
  \/ FetchSleep

SpecFetch == InitFetch /\ [][NextFetch]_vars

TypeOK ==
  /\ capsule.status \in Statuses
  /\ Len(hist) = Len(jobs)
  /\ \A j \in 1..Len(jobs) : jobs[j].retryCount \in 0..MaxRetries

\* ================================================================ claims
JobIds == 1..Len(jobs)
ModuleIds == 1..Len(capsuleModules)

\* the <<moduleId, moduleIndex, lessons>> entries of all saves
SavedEntries == UNION {{hist[j].saved[i] : i \in 1..Len(hist[j].saved)} : j \in JobIds}

\* C1: when a module step fails on consecutive invocations, the job gives up
\* only at the 4th failure, after exactly three retries scheduled with delays
\* of 2 s, 4 s and 8 s.
C1_GivesUpAfterThreeRetries ==
  \A j \in JobIds :
    hist[j].gaveUp => /\ hist[j].streak = 4
                      /\ hist[j].delays = <<2000, 4000, 8000>>

\* C2: a call of generateCapsuleContent that finds the capsule in
\* generating_outline, generating_content or completed returns
\* {success:false}, creates no job, leaves the capsule unchanged and
\* schedules nothing.
C2_RejectedCallHasNoEffect ==
  [][\A c \in Callers :
       (/\ calls[c].pc \in {"idle", "done"}
        /\ calls'[c] # calls[c]
        /\ capsule.status \in {"generating_outline", "generating_content",
                               "completed"})
       => /\ calls'[c].pc = "done"
          /\ calls'[c].result = "rejected"
          /\ jobs' = jobs
          /\ capsule' = capsule
          /\ scheduled' = scheduled
          /\ running' = running]_vars

C2_Witness ==
  /\ calls["c1"].pc = "done" /\ calls["c1"].result = "rejected"
  /\ capsule.status = "completed"
  /\ Len(jobs) < MaxJobs

\* C3: when the outline generator returns the error object, the write of
\* generateOutline sets the capsule to failed with the returned message as
\* errorMessage and schedules nothing, and the job of that attempt never gets
\* an outline, never has a step scheduled and never moves the capsule to
\* generating_content.
C3_RejectedJobStops(j) ==
  /\ ~jobs[j].outlineGenerated
  /\ jobs[j].currentStage = "outline"
  /\ \A inv \in scheduled : inv.jobId # j
  /\ \A p \in running :
       p.jobId = j => p.fn = "generateOutline" /\
                      p.pc \in {"reject", "catch_status", "catch_job"}

C3_RejectionIsTerminal ==
  /\ [](\A j \in JobIds : hist[j].rejected => C3_RejectedJobStops(j))
  /\ [][\A p \in running :
          (p.pc = "reject" /\ p \notin running' /\ throws' = throws)
          => /\ capsule'.status = "failed"
             /\ p.msg # Undefined => capsule'.errorMessage = p.msg
             /\ scheduled' = scheduled
             /\ \A q \in running' : q.jobId # p.jobId]_vars

C3_Witness ==
  /\ capsule.status = "failed"
  /\ capsule.errorMessage = UrlRejectMessage
  /\ \E j \in JobIds : hist[j].rejected
  /\ running = {} /\ scheduled = {}

\* C4: a reader of the lessons of a saved module sees none of its lessons or
\* all of them, whenever it reads.
C4_ModuleAtomicity ==
  \A e \in SavedEntries :
    LET seen == Len(getCapsuleWithContent[e[1]].lessons)
    IN seen = 0 \/ seen = e[3]

C4_Witness ==
  \E e \in SavedEntries :
    e[3] >= 2 /\ Len(getCapsuleWithContent[e[1]].lessons) = e[3]

\* C5: modulesGenerated of a job never decreases, and it equals totalModules
\* whenever the job's stage is "completed".
C5_MonotonicProgress ==
  /\ [](\A j \in JobIds :
          jobs[j].currentStage = "completed"
          => jobs[j].modulesGenerated = jobs[j].totalModules)
  /\ [][\A j \in JobIds :
          jobs'[j].modulesGenerated >= jobs[j].modulesGenerated]_vars

C5_Witness ==
  \E j \in JobIds :
    /\ jobs[j].currentStage = "completed"
    /\ jobs[j].totalModules = MaxModules
    /\ jobs[j].modulesGenerated = MaxModules
    /\ capsule.status = "completed"

\* C6: every change of the capsule's status is one of the six transitions of
\* the state machine; in particular completed is never left.
AllowedTransitions ==
  {<<"pending", "generating_outline">>, <<"failed", "generating_outline">>,
   <<"generating_outline", "generating_content">>,
   <<"generating_outline", "failed">>,
   <<"generating_content", "completed">>, <<"generating_content", "failed">>}

C6_OnlyAllowedTransitions ==
  [][capsule'.status # capsule.status
     => <<capsule.status, capsule'.status>> \in AllowedTransitions]_vars

\* C7: the order values of the capsule's modules are pairwise distinct and
\* form the set 0..k-1.
C7_OrderUniqueAndDense ==
  /\ \A m1, m2 \in ModuleIds :
       m1 # m2 => capsuleModules[m1].order # capsuleModules[m2].order
  /\ {capsuleModules[m].order : m \in ModuleIds} = 0..(Len(capsuleModules) - 1)

\* C8: retryCount of a job equals the number of consecutive failures of the
\* module step the job is on.
C8_RetryCountIsCurrentStreak ==
  \A j \in JobIds : jobs[j].retryCount = hist[j].streak

\* C9: no job saves a module for the same module index twice.
C9_OneModulePerIndex ==
  \A j \in JobIds :
    \A a, b \in 1..Len(hist[j].saved) :
      a # b => hist[j].saved[a][2] # hist[j].saved[b][2]

\* C10: no job created by a call exists while the capsule still has the
\* pending or failed status the call started from.
C10_JobAndStatusAtomic ==
  \A c \in Callers :
    calls[c].pc = "status" => ~(capsule.status \in {"pending", "failed"})


\* the jobs that have a stage invocation scheduled or running
ActiveJobs == {inv.jobId : inv \in scheduled} \cup {p.jobId : p \in running}

\* C11: two overlapping calls that both pass the status check each create
\* their own job and each schedule their own outline step.
C11_EachCallOwnsItsJob ==
  /\ [](\A c, d \in Callers :
          (c # d /\ calls[c].pc \in {"status", "schedule"}
                 /\ calls[d].pc \in {"status", "schedule"})
          => /\ calls[c].jobId # calls[d].jobId
             /\ calls[c].jobId \in JobIds)
  /\ [][\A c \in Callers :
          (calls[c].pc = "schedule" /\ calls'[c].pc = "done")
          => LET inv == Invocation("generateOutline", calls[c].jobId, 0, 0, 0)
             IN inv \notin scheduled /\ scheduled' = scheduled \cup {inv}]_vars

\* two jobs of the capsule are running at once
C11_Witness ==
  /\ Len(jobs) = 2
  /\ ActiveJobs = {1, 2}
  /\ \A c \in Callers : calls[c].result = "success"

InputValid ==
  /\ CanParse(engine.jsonString)
  /\ SchemaAccepts(engine.schema, JsonParse(engine.jsonString))

\* C13: on a text that already parses and satisfies the schema the run makes
\* no repair call and returns, in its first cycle, a text with the same JSON
\* value as the input.
C13_ValidInputComesBackEqual ==
  InputValid =>
    /\ engine.repairCalls = 0
    /\ engine.pc \in {"start", "try", "returned"}
    /\ engine.pc = "returned"
         => /\ engine.cycles = 1
            /\ JsonParse(engine.result) = JsonParse(engine.jsonString)

\* position i of s holds a single backslash followed by a listed command
CommandAt(s, i) ==
  /\ s[i] = Backslash
  /\ (i > 1 => s[i - 1] # Backslash)
  /\ \E c \in 1..Len(latexCommands) :
       /\ i + Len(latexCommands[c]) <= Len(s)
       /\ \A j \in 1..Len(latexCommands[c]) : s[i + j] = latexCommands[c][j]

\* s with one more backslash in front of every position of P, from i on
RECURSIVE DoubledAt(_, _, _)
DoubledAt(s, P, i) ==
  IF i > Len(s) THEN <<>>
  ELSE (IF i \in P THEN <<Backslash, s[i]>> ELSE <<s[i]>>) \o DoubledAt(s, P, i + 1)

FixIsIdempotentAndLocal(s) ==
  LET r == fixLatexEscapes(s)
  IN /\ fixLatexEscapes(r) = r
     /\ \E P \in SUBSET {i \in 1..Len(s) : CommandAt(s, i)} : r = DoubledAt(s, P, 1)

\* C14: fixLatexEscapes applied twice gives what it gives applied once, and
\* its result differs from its argument only by a second backslash in front
\* of single backslashes that are followed by a listed command.
C14_FixIsIdempotentAndLocal ==
  /\ FixIsIdempotentAndLocal(engine.jsonString.content)
  /\ FixIsIdempotentAndLocal(engine.currentJson.content)

\* a cycle has fixed a text that holds a command and another backslash
C14_Witness ==
  LET s == engine.jsonString.content
  IN /\ engine.cycles >= 1
     /\ fixLatexEscapes(s) # s
     /\ \E i \in 1..Len(s) : s[i] = Backslash /\ ~CommandAt(s, i)

\* the lesson contents held by table capsuleLessons
PersistedContents == {capsuleLessons[l].content : l \in 1..Len(capsuleLessons)}

\* C15: a dragDrop question with a target whose acceptsItems list is empty is
\* never persisted as lesson content.
C15_EmptyTargetNeverPersisted ==
  \A q \in PersistedContents :
    q.type = "dragDrop" => \A t \in DOMAIN q.acceptsItems : q.acceptsItems[t] # {}

\* C16: a fillBlanks question whose text holds a different number of
\* placeholders than its blanks array has entries is never persisted as lesson
\* content.
C16_BlankMismatchNeverPersisted ==
  \A q \in PersistedContents :
    q.type = "fillBlanks" => Len(q.placeholders) = Len(q.blanks)

\* no call is in flight and no stage invocation is scheduled or running
Quiescent ==
  /\ scheduled = {} /\ running = {}
  /\ \A c \in Callers : ~InFlight(c)

\* the steps in which a catch block writes the capsule status
CatchWrites(p) ==
  \/ p.fn \in {"generateOutline", "finalizeGeneration"} /\ p.pc = "catch_status"
  \/ p.fn = "generateModuleContent" /\ p.pc = "fail_status"

C18_GenerationTerminates ==
  /\ (capsule.status = "generating_outline")
       ~> (capsule.status \in {"completed", "failed"})
  /\ <>[](scheduled = {} /\ running = {})

\* a module step was retried and the capsule is completed
C18_Witness ==
  /\ Quiescent
  /\ capsule.status = "completed"
  /\ \E j \in JobIds : jobs[j].retryCount >= 1

\* the capsule is generating and nothing is left that could advance it
Stalled ==
  /\ Quiescent
  /\ capsule.status \in {"generating_outline", "generating_content"}

\* C19: a stalled capsule keeps its status and its job records, and a call of
\* generateCapsuleContent made for it passes the status check and goes on to
\* create a job.
C19_RetryRestartsStalled ==
  /\ [][Stalled => (capsule' = capsule /\ jobs' = jobs)]_vars
  /\ [][(Stalled /\ calls' # calls)
          => \E c \in Callers : calls'[c].pc = "create"]_vars

\* C20: a job whose outline has been generated has
\* 0 <= modulesGenerated <= totalModules, and the progress value derived from
\* any job is at most 100.
C20_ProgressWithinBounds ==
  \A j \in JobIds :
    /\ jobs[j].outlineGenerated
         => /\ 0 <= jobs[j].modulesGenerated
            /\ jobs[j].modulesGenerated <= jobs[j].totalModules
    /\ Progress(jobs[j]) <= 100

\* the last module of the largest outline is counted while the capsule is
\* still generating content: the progress bar shows 100
C20_Witness ==
  /\ capsule.status = "generating_content"
  /\ \E j \in JobIds :
       /\ jobs[j].outlineGenerated
       /\ jobs[j].totalModules = MaxModules
       /\ jobs[j].modulesGenerated = MaxModules
       /\ Progress(jobs[j]) = 100

\* the module-content invocations that are scheduled or running
ModuleSteps ==
  {[jobId |-> x.jobId, moduleIndex |-> x.moduleIndex] :
     x \in {y \in scheduled \cup running : y.fn = "generateModuleContent"}}

\* C21: every call that starts a generation creates a job with currentStage
\* "outline", modulesGenerated 0 and retryCount 0 and schedules the outline
\* step for it; a job gets module steps only after its own outline was
\* generated, and never for an index beyond the modules it has generated
\* itself, so a retry starts again at module index 0.
C21_RetryRestartsFromOutline ==
  /\ [][Len(jobs') > Len(jobs)
          => /\ Len(jobs') = Len(jobs) + 1
             /\ jobs'[Len(jobs')].currentStage = "outline"
             /\ jobs'[Len(jobs')].modulesGenerated = 0
             /\ jobs'[Len(jobs')].currentModuleIndex = 0
             /\ jobs'[Len(jobs')].retryCount = 0
             /\ ~jobs'[Len(jobs')].outlineGenerated]_vars
  /\ [][\A c \in Callers :
          (calls[c].pc = "schedule" /\ calls'[c].pc = "done")
          => scheduled' = scheduled \cup
               {Invocation("generateOutline", calls[c].jobId, 0, 0, 0)}]_vars
  /\ [](\A x \in ModuleSteps :
          /\ jobs[x.jobId].outlineGenerated
          /\ x.moduleIndex <= jobs[x.jobId].modulesGenerated)

\* the first job gave up with a module generated and the second job, created
\* by the retry, is working on module index 0
C21_Witness ==
  /\ Len(jobs) = 2
  /\ hist[1].gaveUp
  /\ jobs[1].modulesGenerated >= 1
  /\ jobs[2].modulesGenerated = 0
  /\ \E p \in running : /\ p.fn = "generateModuleContent"
                        /\ p.jobId = 2 /\ p.moduleIndex = 0

\* job j has no handler running any more
HandlerEnded(j) == \A q \in running' : q.jobId # j

C23_SuccessAdvancesByOne ==
  [][\A p \in running :
       (/\ p.fn = "generateModuleContent" /\ p.pc = "schedule"
        /\ HandlerEnded(p.jobId))
       => LET i == p.moduleIndex
              n == p.outline
              job == jobs'[p.jobId]
              added == scheduled' \ scheduled
          IN /\ job.modulesGenerated = i + 1
             /\ job.currentModuleIndex = i + 1
             /\ job.currentStage = IF i + 1 < n THEN StageName(i + 1)
                                   ELSE "finalizing"
             /\ scheduled \subseteq scheduled'
             /\ Cardinality(added) = 1
             /\ \A x \in added :
                  /\ x.delay = 0 /\ x.jobId = p.jobId
                  /\ IF i + 1 < n
                     THEN /\ x.fn = "generateModuleContent"
                          /\ x.moduleIndex = i + 1 /\ x.outline = n
                     ELSE x.fn = "finalizeGeneration"]_vars

\* both cases have happened for one job: module 1 was scheduled after module
\* 0, and finalizeGeneration after module 1
C23_Witness ==
  \E j \in JobIds :
    /\ jobs[j].totalModules = 2
    /\ jobs[j].modulesGenerated = 2
    /\ jobs[j].currentStage = "finalizing"
    /\ \E x \in scheduled : x.fn = "finalizeGeneration" /\ x.jobId = j

\* C24: the give-up of a module step for index i sets the capsule to failed
\* with the message for module i+1 and changes neither the job nor the
\* scheduler; its last call records lastError on the job and changes nothing
\* else of it; the handler schedules nothing, and afterwards the job record
\* never changes again.
C24_GiveUpFreezesJob ==
  /\ [][\A p \in running :
          (/\ p.fn = "generateModuleContent" /\ p.pc = "fail_status"
           /\ p \notin running')
          => /\ capsule'.status = "failed"
             /\ capsule'.errorMessage = ModuleFailedMessage(p.moduleIndex)
             /\ jobs' = jobs
             /\ scheduled' = scheduled]_vars
  /\ [][\A p \in running :
          (/\ p.fn = "generateModuleContent" /\ p.pc = "fail_job"
           /\ p \notin running')
          => /\ p.msg # Undefined
             /\ jobs' = [jobs EXCEPT ![p.jobId].lastError = p.msg]
             /\ scheduled' = scheduled
             /\ HandlerEnded(p.jobId)]_vars
  /\ [][\A j \in JobIds :
          (hist[j].gaveUp /\ j \notin ActiveJobs)
          => /\ jobs'[j] = jobs[j]
             /\ \A x \in scheduled' \cup running' : x.jobId # j]_vars

\* a job has given up, has its last error recorded, and a later job exists
C24_Witness ==
  /\ Len(jobs) = 2
  /\ hist[1].gaveUp
  /\ 1 \notin ActiveJobs
  /\ jobs[1].lastError # Undefined
  /\ jobs[1].retryCount = MaxRetries - 1
  /\ jobs[2].outlineGenerated

\* position i of s holds a backslash followed by a listed command that ends
\* there, whatever stands in front of the backslash
UnescapedCommandAt(s, i) ==
  \E c \in 1..Len(latexCommands) : MatchesAnyBackslash(s, latexCommands[c], i)

\* the only defects of the text are unescaped listed commands and empty
\* arrays: escaping some of its commands gives a text that parses and whose
\* value, without its empty arrays, satisfies the schema
OnlyLocalDefects(text, schema) ==
  /\ ~text.fenced
  /\ \E P \in SUBSET {i \in 1..Len(text.content) : UnescapedCommandAt(text.content, i)} :
       LET fixed == [text EXCEPT !.content = DoubledAt(text.content, P, 1)]
       IN /\ CanParse(fixed)
          /\ SchemaAccepts(schema, removeEmptyArrays(JsonParse(fixed)))

\* C25: a repair call is issued only after a cycle of that attempt has
\* failed, and a text whose only defects are unescaped listed LaTeX commands
\* or empty arrays is accepted in the first cycle with no repair call.
C25_LocalFixesNeedNoRepair ==
  /\ engine.repairCalls <= engine.cycles
  /\ OnlyLocalDefects(engine.jsonString, engine.schema)
       => /\ engine.repairCalls = 0
          /\ engine.pc \in {"start", "try", "returned"}

\* C26: the answer of every repair call goes through a parse/validate cycle,
\* so a run that has ended by returning or by exhausting its attempts has
\* made one cycle more than it has made repair calls.
C26_EveryRepairIsValidated ==
  engine.pc \in {"returned", "exhausted"}
    => engine.cycles = engine.repairCalls + 1
C28_ErrorMessageIsNeverCleared ==
  [][capsule.errorMessage # Undefined
       => /\ capsule'.errorMessage # Undefined
          /\ (capsule'.status # "failed"
                => capsule'.errorMessage = capsule.errorMessage)]_vars

\* a capsule completed by its second job still carries the message of the
\* first job's failure
C28_Witness ==
  /\ capsule.status = "completed"
  /\ capsule.errorMessage # Undefined
  /\ Len(jobs) = 2

\* C29: when deleteCapsule has run between the capsule lookup and the save
\* of a generateModuleContent invocation, the save still inserts: once that
\* invocation has ended, the tables hold its module and its lessons although
\* the capsule is gone.
C29_SaveAfterDeleteLeavesOrphans ==
  /\ [][deleted /\ (\E p \in running \ running' : p.pc = "save")
          => /\ Len(capsuleModules') = Len(capsuleModules) + 1
             /\ Len(capsuleLessons') = Len(capsuleLessons) + lessonsPerModule]_vars
  /\ [](deleted /\ running = {}
          => Len(capsuleModules) = 1 /\ Len(capsuleLessons) = lessonsPerModule)

\* module and lesson rows of a deleted capsule, written by the invocation of
\* the second module
C29_Witness ==
  /\ deleted
  /\ Len(capsuleModules) = 1 /\ capsuleModules[1].order = 1
  /\ Len(capsuleLessons) = MaxLessons
  /\ \A i \in 1..Len(capsuleLessons) : capsuleLessons[i].moduleId = 1

\* the statuses after which fetchTranscript may send another request
RetryableStatuses == {408, 429, 503}

RequestsBounded == fetch.requests <= CONFIG.maxRetries + 1

RetryOnlyAfterRetryableStatus ==
  fetch.pc \in {"sleep", "request"} /\ fetch.requests > 0
    => fetch.outcome = "status" /\ fetch.status \in RetryableStatuses

OtherFailuresEndAtOnce ==
  /\ fetch.requests > 0
       /\ ~(fetch.outcome = "status" /\ fetch.status \in RetryableStatuses)
       /\ fetch.outcome # "ok"
     => fetch.pc = "thrown" /\ fetch.code # Undefined
  /\ fetch.pc = "thrown" => fetch.code # Undefined

\* the i-th wait is the Retry-After value of the i-th refused request when
\* it has one, and else 1 s doubled on each retry before it
WaitsAsClaimed ==
  \A i \in 1..Len(fetch.waits) :
     fetch.waits[i] = IF fetch.headers[i].kind # "absent"
                      THEN fetch.headers[i].seconds * 1000
                      ELSE CONFIG.initialRetryDelay * 2 ^ (i - 1)

\* C30: a call of fetchTranscript sends at most maxRetries + 1 = 4 requests;
\* it sends another request only after a response with status 408, 429 or
\* 503, and before it waits the Retry-After value when the response has one
\* and else a delay that starts at 1 s and doubles on each retry; every other
\* failure ends the call at once with a TranscriptFetchError.
C30_BoundedRetriesWithBackoff ==
  /\ RequestsBounded
  /\ RetryOnlyAfterRetryableStatus
  /\ OtherFailuresEndAtOnce
  /\ WaitsAsClaimed

====
